---- MODULE Spec2Model ----
(***************************************************************************)
(* Work-card generation (.dams/generate_work_cards.py) and milestone       *)
(* packaging with its credential vault (.dams/zip_milestones.py).          *)
(*                                                                         *)
(* Python strings are TLA+ strings; characters are read with SubSeq and    *)
(* strings are built with \o, so formatting, lower-casing, replacement,    *)
(* splitting and substring search are computed character by character.     *)
(***************************************************************************)
EXTENDS Integers, Sequences, FiniteSets, TLC

\* ------------------------------------------------------------------------
\* Bounds of the model
\* ------------------------------------------------------------------------

\* how many times the generation script is started in one behaviour
MaxGenRuns == 2

\* how many times the packaging script is started in one behaviour
MaxZipRuns == 2

\* how many midnights pass in one behaviour
MaxTicks == 1

\* ------------------------------------------------------------------------
\* Python string primitives
\* ------------------------------------------------------------------------

\* s[i], 1-based
CharAt(s, i) == SubSeq(s, i, i)

\* one decimal digit as a character
Digit(d) ==
  CASE d = 0 -> "0" [] d = 1 -> "1" [] d = 2 -> "2" [] d = 3 -> "3"
    [] d = 4 -> "4" [] d = 5 -> "5" [] d = 6 -> "6" [] d = 7 -> "7"
    [] d = 8 -> "8" [] d = 9 -> "9"

\* str(n) for n >= 0
RECURSIVE DecStr(_)
DecStr(n) == IF n < 10 THEN Digit(n) ELSE DecStr(n \div 10) \o Digit(n % 10)

\* left-pad with zeros to at least w characters: the "0w" of a format spec
RECURSIVE ZeroPad(_, _)
ZeroPad(s, w) == IF Len(s) >= w THEN s ELSE ZeroPad("0" \o s, w)

\* f"{n:03d}" for n >= 0
Fmt03d(n) == ZeroPad(DecStr(n), 3)

\* str.lower() on one character
LowerChar(c) ==
  CASE c = "A" -> "a"
       [] c = "B" -> "b"
       [] c = "C" -> "c"
       [] c = "D" -> "d"
       [] c = "E" -> "e"
       [] c = "F" -> "f"
       [] c = "G" -> "g"
       [] c = "H" -> "h"
       [] c = "I" -> "i"
       [] c = "J" -> "j"
       [] c = "K" -> "k"
       [] c = "L" -> "l"
       [] c = "M" -> "m"
       [] c = "N" -> "n"
       [] c = "O" -> "o"
       [] c = "P" -> "p"
       [] c = "Q" -> "q"
       [] c = "R" -> "r"
       [] c = "S" -> "s"
       [] c = "T" -> "t"
       [] c = "U" -> "u"
       [] c = "V" -> "v"
       [] c = "W" -> "w"
       [] c = "X" -> "x"
       [] c = "Y" -> "y"
       [] c = "Z" -> "z"
       [] OTHER -> c

\* str.lower()
RECURSIVE Lower(_)
Lower(s) ==
  IF Len(s) = 0 THEN ""
  ELSE LowerChar(CharAt(s, 1)) \o Lower(SubSeq(s, 2, Len(s)))

\* str.replace(old, new) for a one-character old
RECURSIVE Replace(_, _, _)
Replace(s, old, new) ==
  IF Len(s) = 0 THEN ""
  ELSE (IF CharAt(s, 1) = old THEN new ELSE CharAt(s, 1))
         \o Replace(SubSeq(s, 2, Len(s)), old, new)

\* str.split(sep) for a one-character sep: the segments between separators,
\* empty segments included
RECURSIVE SplitAcc(_, _, _)
SplitAcc(s, sep, cur) ==
  IF Len(s) = 0 THEN << cur >>
  ELSE IF CharAt(s, 1) = sep
       THEN << cur >> \o SplitAcc(SubSeq(s, 2, Len(s)), sep, "")
       ELSE SplitAcc(SubSeq(s, 2, Len(s)), sep, cur \o CharAt(s, 1))

Split(s, sep) == SplitAcc(s, sep, "")

\* pattern == filename where pattern in filename is meant
EqualsName(pattern, filename) == pattern = filename

\* the operator `pattern in filename` on two strings
Contains(pattern, filename) ==
  \E i \in 1..(Len(filename) - Len(pattern) + 1) :
    SubSeq(filename, i, i + Len(pattern) - 1) = pattern

\* ------------------------------------------------------------------------
\* generate_work_cards.py
\* ------------------------------------------------------------------------

\* the milestone catalog. A TLA+ string cannot hold a backquote: the five
\* task strings that have backquotes are written with ' in their place, which
\* leaves every length as it is.
milestones ==
  << [ name |-> "TDD Foundation",
      card_range |-> <<1, 8>>,
      tasks |-> <<
            "Fix config_tests.rs complex type violations",
            "Convert Config struct tests to string functions",
            "Convert ConfigError tests to string outputs",
            "Test 'do_*' functions, not internal structs",
            "Fix integration.rs RSB pattern violations",
            "Replace std::env with RSB patterns",
            "Replace std::fs with RSB operations",
            "Replace std::process with shell ops",
            "Establish RED-GREEN cycle discipline",
            "Document TDD workflow",
            "Create TDD templates",
            "Update test runner configuration",
            "Pass all existing tests with TDD patterns" >> ],
    [ name |-> "Core KV Operations",
      card_range |-> <<6, 12>>,
      tasks |-> <<
            "Implement core KV commands (set, get, del, keys, scan)",
            "Develop namespace management",
            "Create basic auth system",
            "Implement stream processing with meta-directives",
            "Define exit code standards",
            "Ensure TDD for each new function",
            "Implement RSB string-first patterns",
            "Add comprehensive error handling",
            "Develop integration test coverage" >> ],
    [ name |-> "TTL & Cache System",
      card_range |-> <<13, 20>>,
      tasks |-> <<
            "Create TTL namespace creation functionality",
            "Implement lazy expiry on read/write operations",
            "Add '--include-expired' flag",
            "Develop cache configuration management",
            "Design eviction policies",
            "Validate near-SQLite performance benchmarks",
            "Verify memory efficiency",
            "Implement concurrent access testing" >> ],
    [ name |-> "Security & Auth",
      card_range |-> <<21, 28>>,
      tasks |-> <<
            "Enforce stream auth preamble",
            "Create user management system",
            "Implement session tokens",
            "Generate and validate API keys",
            "Design configurable security policies",
            "Delegate encryption to system tools",
            "Prevent auth bypass",
            "Implement input validation security",
            "Protect against stream injection" >> ],
    [ name |-> "Data Management",
      card_range |-> <<29, 35>>,
      tasks |-> <<
            "Create backup system with optional encryption",
            "Implement TSV import/export",
            "Validate database integrity",
            "Develop migration utilities",
            "Add data compression options",
            "Verify backup restoration",
            "Test large dataset import/export",
            "Create corruption recovery procedures" >> ],
    [ name |-> "Filesystem Mirror",
      card_range |-> <<36, 42>>,
      tasks |-> <<
            "Implement 'export-fs' directory mapping",
            "Create 'import-fs' synchronization",
            "Handle context suffix mapping",
            "Manage file formats (JSON default)",
            "Develop incremental sync capabilities",
            "Ensure 'grep'/'rg' compatibility",
            "Integrate file system watch",
            "Design conflict resolution policies" >> ] >>

min(a, b) == IF a <= b THEN a ELSE b
max(a, b) == IF a >= b THEN a ELSE b

\* generate_work_card(milestone, card_number, task)
generate_work_card(milestone, card_number, task) ==
  [ card_number |-> "CARD_" \o Fmt03d(card_number),
    milestone |-> milestone.name,
    feature_name |-> task,
    complexity |-> min(max(Len(task) \div 5, 1), 10),
    status |-> "locked",
    tests_required |->
      [ red_phase |-> "Failing test for " \o task,
        green_phase |-> "Minimal implementation to pass " \o task \o " test",
        refactor_phase |-> "Improve code quality for " \o task ],
    dependencies |-> << >>,
    acceptance_criteria |-> << "Complete " \o task \o " with TDD evidence" >>,
    \* the constant marker, without its final emoji (not a TLA+ character)
    treasure_vault |-> "SECURED_BY_BEAVER_" ]

\* a card_filename that leaves the milestone's name out
card_filename_number_only(card, milestone) == card.card_number \o ".yml"

\* card_filename of the generation loop
card_filename(card, milestone) ==
  card.card_number \o "_" \o Replace(Lower(milestone.name), " ", "_") \o ".yml"

VARIABLES
  \* generate_work_cards.py
  gpc,          \* the script: "off", "loop", "done" or "error"
  exception,    \* the exception that ended the script, "" when none
  mi,           \* position of `milestone` in milestones, 0 before the loop
  ti,           \* position of `task` in milestone["tasks"], 0 before the loop
  idx,          \* the loop variable idx
  card,         \* the loop variable card
  gen_runs,     \* how many times the script has been started
  \* the file system and the clock
  work_cards,       \* the directory work_cards_path: exists, files
  unreadable,       \* names in work_cards the process may not read
  milestone_vaults, \* the directory milestone_vaults_path: exists, files
  vault,            \* agentic_etc and beaver_passwords.secure in it
  umask,            \* the file mode creation mask of the process
  today,            \* the calendar date the clock shows
  ticks,            \* how many midnights have passed
  \* zip_milestones.py
  zpc,            \* "off", "start", "loop", "save", "opened", "dumped",
                  \* "chmod", "done" or "error"
  zexception,     \* the exception that ended the script, "" when none
  zi,             \* position of `milestone` in the list, 0 before the loop
  timestamp,      \* the loop variable timestamp
  password,       \* the loop variable password
  password_vault, \* the list password_vault
  zip_runs,       \* how many times the script has been started
  \* what an observer of the runs records
  run_dates,      \* the dates datetime.now() has returned in this run
  prev_dates,     \* run_dates of the previous run when it succeeded, else {}
  at_start        \* milestone_vaults and vault as this run found them

gvars == << gpc, exception, mi, ti, idx, card, gen_runs >>

fsvars == << work_cards, unreadable, milestone_vaults, vault, umask, today, ticks >>

zvars == << zpc, zexception, zi, timestamp, password, password_vault, zip_runs,
            run_dates, prev_dates, at_start >>

vars == << gvars, fsvars, zvars >>

\* a Python name that is not bound yet
Unbound == "<unbound>"

\* the iteration after (m, t) of the nested for loops, << 0, 0 >> at the end
NextIteration(m, t) ==
  IF m >= 1 /\ t < Len(milestones[m].tasks) THEN << m, t + 1 >>
  ELSE LET later == { j \in (m + 1)..Len(milestones) : Len(milestones[j].tasks) > 0 }
       IN  IF later = {} THEN << 0, 0 >>
           ELSE << CHOOSE j \in later : \A k \in later : j <= k, 1 >>

\* enumerate(milestone["tasks"]) with its start left out
EnumerateFromZero(milestone, t) == t - 1

\* enumerate(milestone["tasks"], start=start): the idx paired with task t
EnumerateIdx(milestone, t) == milestone.card_range[1] + (t - 1)

\* open(card_filepath, 'w') and yaml.safe_dump: create or overwrite one file
WriteFile(dir, name, content) ==
  [ dir EXCEPT !.files =
      { f \in dir.files : f.name # name } \cup { [ name |-> name, content |-> content ] } ]

\* a date of the clock
Date(y, m, d) == [ year |-> y, month |-> m, day |-> d ]

\* a directory, and a file of a directory
NoDir == [ exists |-> FALSE, files |-> {} ]
EmptyDir == [ exists |-> TRUE, files |-> {} ]

\* no vault directory yet
NoVault == [ dir |-> FALSE, exists |-> FALSE, mode |-> 0, owner |-> "", data |-> << >> ]

\* the packaging script is not running and has left nothing behind
ZipOff ==
  /\ zpc = "off"
  /\ zexception = ""
  /\ zi = 0
  /\ timestamp = Unbound
  /\ password = Unbound
  /\ password_vault = << >>
  /\ zip_runs = 0
  /\ run_dates = {}
  /\ prev_dates = {}
  /\ unreadable = {}
  /\ milestone_vaults = NoDir
  /\ vault = NoVault
  /\ umask = 18
  /\ today = Date(2025, 12, 31)
  /\ ticks = 0
  /\ at_start = [ milestone_vaults |-> NoDir, vault |-> NoVault ]

InitGen ==
  /\ gpc = "loop"
  /\ exception = ""
  /\ mi = 0
  /\ ti = 0
  /\ idx = Unbound
  /\ card = Unbound
  /\ work_cards \in { NoDir, EmptyDir }
  /\ gen_runs = 1
  /\ ZipOff

\* one iteration of the inner loop whose open() succeeds
StoreCard ==
  /\ gpc = "loop"
  /\ NextIteration(mi, ti) # << 0, 0 >>
  /\ work_cards.exists
  /\ LET n == NextIteration(mi, ti)
         milestone == milestones[n[1]]
         task == milestone.tasks[n[2]]
         i == EnumerateIdx(milestone, n[2])
         c == generate_work_card(milestone, i, task)
     IN  /\ mi' = n[1]
         /\ ti' = n[2]
         /\ idx' = i
         /\ card' = c
         /\ work_cards' = WriteFile(work_cards, card_filename(c, milestone), c)
  /\ UNCHANGED << gpc, exception, gen_runs >>
  /\ UNCHANGED << unreadable, milestone_vaults, vault, umask, today, ticks, zvars >>

\* one iteration of the inner loop whose open() raises: the directory is absent
StoreCardFails ==
  /\ gpc = "loop"
  /\ NextIteration(mi, ti) # << 0, 0 >>
  /\ ~work_cards.exists
  /\ LET n == NextIteration(mi, ti)
         milestone == milestones[n[1]]
         task == milestone.tasks[n[2]]
         i == EnumerateIdx(milestone, n[2])
     IN  /\ mi' = n[1]
         /\ ti' = n[2]
         /\ idx' = i
         /\ card' = generate_work_card(milestone, i, task)
  /\ gpc' = "error"
  /\ exception' = "FileNotFoundError"
  /\ UNCHANGED << gen_runs, fsvars, zvars >>

\* the loops are exhausted: print the completion message
FinishGen ==
  /\ gpc = "loop"
  /\ NextIteration(mi, ti) = << 0, 0 >>
  /\ gpc' = "done"
  /\ UNCHANGED << exception, mi, ti, idx, card, gen_runs, fsvars, zvars >>

\* the script is started again, on the directory the last run left
RerunGen ==
  /\ gpc \in { "done", "error" }
  /\ gen_runs < MaxGenRuns
  /\ gpc' = "loop"
  /\ exception' = ""
  /\ mi' = 0
  /\ ti' = 0
  /\ idx' = Unbound
  /\ card' = Unbound
  /\ gen_runs' = gen_runs + 1
  /\ UNCHANGED << fsvars, zvars >>

\* between two runs the operator creates the missing directory
MakeWorkCardsDir ==
  /\ gpc = "error"
  /\ ~work_cards.exists
  /\ work_cards' = [ work_cards EXCEPT !.exists = TRUE ]
  /\ UNCHANGED << gvars, unreadable, milestone_vaults, vault, umask, today, ticks, zvars >>

NextGen ==
  \/ StoreCard
  \/ StoreCardFails
  \/ FinishGen
  \/ RerunGen
  \/ MakeWorkCardsDir

SpecGen == InitGen /\ [][NextGen]_vars

\* ------------------------------------------------------------------------
\* zip_milestones.py
\* ------------------------------------------------------------------------

\* the list milestones of zip_milestone_cards
zip_milestones ==
  << [ name |-> "MILESTONE_2_CORE_KV_OPS",
       card_pattern |-> "CARD_00[6-9].yml,CARD_01[0-2].yml" ],
     [ name |-> "MILESTONE_3_TTL_CACHE", card_pattern |-> "CARD_01[3-9].yml" ],
     [ name |-> "MILESTONE_4_SECURITY", card_pattern |-> "CARD_02[1-8].yml" ],
     [ name |-> "MILESTONE_5_DATA_MGMT", card_pattern |-> "CARD_02[9-35].yml" ],
     [ name |-> "MILESTONE_6_FILESYSTEM_MIRROR",
       card_pattern |-> "CARD_03[6-42].yml" ] >>

\* zip_filename of a milestone
zip_filename(milestone) == milestone.name \o ".zip"

\* datetime.datetime.now().strftime("%Y%m%d") when the clock shows date d
strftime(d) ==
  ZeroPad(DecStr(d.year), 4) \o ZeroPad(DecStr(d.month), 2) \o ZeroPad(DecStr(d.day), 2)

\* a password that leaves the milestone's name out
password_without_name(ts, milestone) == "beaver_dam_" \o ts

\* the f-string that is assigned to password
password_of(ts, milestone) == "beaver_dam_" \o ts \o "_" \o milestone.name

\* the files of os.listdir(work_cards_path) that the if of the inner loop lets
\* through: any(pattern in filename for pattern in card_pattern.split(','))
Selected(milestone, dir) ==
  LET patterns == Split(milestone.card_pattern, ",")
  IN  { f \in dir.files : \E k \in 1..Len(patterns) : Contains(patterns[k], f.name) }

\* the archive of a milestone in a directory: a set of at most one file
ArchiveOf(dir, milestone) == { f \in dir.files : f.name = zip_filename(milestone) }

\* a & b on the non-negative integers
RECURSIVE BitAnd(_, _)
BitAnd(a, b) ==
  IF a = 0 \/ b = 0 THEN 0
  ELSE (a % 2) * (b % 2) + 2 * BitAnd(a \div 2, b \div 2)

\* the mode open(path, 'w') gives a file it creates: 0o666 & ~umask
CreateMode(um) == BitAnd(438, 511 - um)

\* whether open(vault_path, 'w') may write an existing file: the owner's write
\* bit for the owner, the others' write bit for anybody else (the process is
\* neither root nor in the file's group)
Writable(v) ==
  IF v.owner = "self" THEN (v.mode \div 128) % 2 = 1 ELSE (v.mode \div 2) % 2 = 1

\* open(vault_path, 'w') after os.makedirs(agentic_etc, exist_ok=True): create
\* the file, or truncate it and leave its mode and owner as they are
OpenForWrite(v, um) ==
  IF v.exists THEN [ v EXCEPT !.dir = TRUE, !.data = << >> ]
  ELSE [ dir |-> TRUE, exists |-> TRUE, mode |-> CreateMode(um), owner |-> "self",
         data |-> << >> ]

\* a chmod that changes nothing
ChmodNothing(v, mode) == v

\* os.chmod(vault_path, mode)
Chmod(v, mode) == [ v EXCEPT !.mode = mode ]

\* the number of days of a month
DaysIn(y, m) ==
  IF m = 2 THEN (IF (y % 4 = 0 /\ y % 100 # 0) \/ y % 400 = 0 THEN 29 ELSE 28)
  ELSE IF m \in { 4, 6, 9, 11 } THEN 30 ELSE 31

\* the date after d
NextDay(d) ==
  IF d.day < DaysIn(d.year, d.month) THEN Date(d.year, d.month, d.day + 1)
  ELSE IF d.month < 12 THEN Date(d.year, d.month + 1, 1)
  ELSE Date(d.year + 1, 1, 1)

\* a file of a directory whose content does not matter to the packaging
PlainFile(name) == [ name |-> name, content |-> "x" ]

\* the card directory as a full run of generate_work_cards.py leaves it
GeneratedCards ==
  { [ name |-> card_filename(
                 generate_work_card(milestones[m], EnumerateIdx(milestones[m], t),
                                    milestones[m].tasks[t]), milestones[m]),
      content |-> generate_work_card(milestones[m], EnumerateIdx(milestones[m], t),
                                     milestones[m].tasks[t]) ] :
      <<m, t>> \in { mt \in (1..Len(milestones)) \X (1..13) :
                       mt[2] <= Len(milestones[mt[1]].tasks) } }

\* card files CARD_006_x.yml .. CARD_012_x.yml
NumberedCards == { PlainFile("CARD_" \o Fmt03d(n) \o "_x.yml") : n \in 6..12 }

\* card files whose names hold the bracket text of the patterns
BracketCards ==
  { PlainFile("CARD_00[6-9].yml"), PlainFile("CARD_01[0-2].yml.bak"),
    PlainFile("CARD_01[3-9].yml"), PlainFile("CARD_01[3-9].yml.orig"),
    PlainFile("old_CARD_02[1-8].yml"),
    PlainFile("CARD_006_x.yml") }

\* the card directories the packaging script is run on: the directory and the
\* names in it that the process may not read
CardDirs ==
  { << NoDir, {} >>,
    << [ exists |-> TRUE, files |-> GeneratedCards ], {} >>,
    << [ exists |-> TRUE, files |-> NumberedCards ], {} >>,
    << [ exists |-> TRUE, files |-> BracketCards ], {} >>,
    << [ exists |-> TRUE, files |-> BracketCards ], { "CARD_01[3-9].yml" } >> }

\* what an earlier run on another day has left in the vault file
StaleData ==
  << << [ milestone |-> "MILESTONE_2_CORE_KV_OPS",
          password |-> "beaver_dam_20250101_MILESTONE_2_CORE_KV_OPS" ] >> >>

\* the vault directory and file the packaging script finds
VaultStates ==
  { NoVault,
    [ dir |-> TRUE, exists |-> FALSE, mode |-> 0, owner |-> "", data |-> << >> ],
    [ dir |-> TRUE, exists |-> TRUE, mode |-> 420, owner |-> "self", data |-> StaleData ],
    [ dir |-> TRUE, exists |-> TRUE, mode |-> 384, owner |-> "self", data |-> StaleData ],
    [ dir |-> TRUE, exists |-> TRUE, mode |-> 256, owner |-> "self", data |-> StaleData ],
    [ dir |-> TRUE, exists |-> TRUE, mode |-> 438, owner |-> "other", data |-> StaleData ] }

\* the umasks the script is run under: 0o022, 0o077, 0o000
Umasks == { 18, 63, 0 }

InitZip ==
  /\ gpc = "off"
  /\ exception = ""
  /\ mi = 0
  /\ ti = 0
  /\ idx = Unbound
  /\ card = Unbound
  /\ gen_runs = 0
  /\ \E d \in CardDirs : work_cards = d[1] /\ unreadable = d[2]
  /\ milestone_vaults = NoDir
  /\ vault \in VaultStates
  /\ umask \in Umasks
  /\ today = Date(2025, 12, 31)
  /\ ticks = 0
  /\ zpc = "start"
  /\ zexception = ""
  /\ zi = 0
  /\ timestamp = Unbound
  /\ password = Unbound
  /\ password_vault = << >>
  /\ zip_runs = 1
  /\ run_dates = {}
  /\ prev_dates = {}
  /\ at_start = [ milestone_vaults |-> milestone_vaults, vault |-> vault ]

\* zip_milestone_cards up to its loop: make the archive directory, start with
\* an empty password_vault
StartZip ==
  /\ zpc = "start"
  /\ milestone_vaults' = [ milestone_vaults EXCEPT !.exists = TRUE ]
  /\ password_vault' = << >>
  /\ zpc' = "loop"
  /\ UNCHANGED << gvars, work_cards, unreadable, vault, umask, today, ticks >>
  /\ UNCHANGED << zexception, zi, timestamp, password, zip_runs, run_dates,
                  prev_dates, at_start >>

\* whether packaging a milestone raises: os.listdir on a missing directory, or
\* zipf.write on a file it may not read
PackagingRaises(milestone) ==
  \/ ~work_cards.exists
  \/ \E f \in Selected(milestone, work_cards) : f.name \in unreadable

\* one iteration of the loop of zip_milestone_cards that raises nothing
PackageMilestone ==
  /\ zpc = "loop"
  /\ zi < Len(zip_milestones)
  /\ LET milestone == zip_milestones[zi + 1]
         ts == strftime(today)
     IN  /\ ~PackagingRaises(milestone)
         /\ zi' = zi + 1
         /\ timestamp' = ts
         /\ password' = password_of(ts, milestone)
         /\ milestone_vaults' =
              WriteFile(milestone_vaults, zip_filename(milestone),
                        Selected(milestone, work_cards))
         /\ password_vault' =
              Append(password_vault,
                     [ milestone |-> milestone.name,
                       password |-> password_of(ts, milestone) ])
  /\ run_dates' = run_dates \cup { today }
  /\ UNCHANGED << gvars, work_cards, unreadable, vault, umask, today, ticks >>
  /\ UNCHANGED << zpc, zexception, zip_runs, prev_dates, at_start >>

\* an iteration that catches what packaging raises and goes on with the next
\* milestone
PackageMilestoneSkips ==
  /\ zpc = "loop"
  /\ zi < Len(zip_milestones)
  /\ PackagingRaises(zip_milestones[zi + 1])
  /\ zi' = zi + 1
  /\ timestamp' = strftime(today)
  /\ password' = password_of(strftime(today), zip_milestones[zi + 1])
  /\ milestone_vaults' =
       WriteFile(milestone_vaults, zip_filename(zip_milestones[zi + 1]), {})
  /\ run_dates' = run_dates \cup { today }
  /\ UNCHANGED << gvars, work_cards, unreadable, vault, umask, today, ticks >>
  /\ UNCHANGED << zpc, zexception, password_vault, zip_runs, prev_dates, at_start >>

\* one iteration of the loop that raises: the exception leaves the with block,
\* which closes the archive with the files written so far, then the function
\* and the script
PackageMilestoneFails ==
  /\ zpc = "loop"
  /\ zi < Len(zip_milestones)
  /\ LET milestone == zip_milestones[zi + 1]
         ts == strftime(today)
     IN  /\ PackagingRaises(milestone)
         /\ zi' = zi + 1
         /\ timestamp' = ts
         /\ password' = password_of(ts, milestone)
         /\ IF ~work_cards.exists
            THEN /\ milestone_vaults' =
                      WriteFile(milestone_vaults, zip_filename(milestone), {})
                 /\ zexception' = "FileNotFoundError"
            ELSE /\ \E written \in SUBSET { f \in Selected(milestone, work_cards) :
                                             f.name \notin unreadable } :
                      milestone_vaults' =
                        WriteFile(milestone_vaults, zip_filename(milestone), written)
                 /\ zexception' = "PermissionError"
  /\ run_dates' = run_dates \cup { today }
  /\ zpc' = "error"
  /\ UNCHANGED << gvars, work_cards, unreadable, vault, umask, today, ticks >>
  /\ UNCHANGED << password_vault, zip_runs, prev_dates, at_start >>

\* the loop is exhausted: return password_vault to the caller, which passes it
\* to save_password_vault
ReturnVault ==
  /\ zpc = "loop"
  /\ zi = Len(zip_milestones)
  /\ zpc' = "save"
  /\ UNCHANGED << gvars, fsvars >>
  /\ UNCHANGED << zexception, zi, timestamp, password, password_vault, zip_runs,
                  run_dates, prev_dates, at_start >>

\* save_password_vault up to the with: makedirs, then open for writing
VaultOpen ==
  /\ zpc = "save"
  /\ vault.exists => Writable(vault)
  /\ vault' = OpenForWrite(vault, umask)
  /\ zpc' = "opened"
  /\ UNCHANGED << gvars, work_cards, unreadable, milestone_vaults, umask, today, ticks >>
  /\ UNCHANGED << zexception, zi, timestamp, password, password_vault, zip_runs,
                  run_dates, prev_dates, at_start >>

\* the open raises: the file exists and the process may not write it
VaultOpenFails ==
  /\ zpc = "save"
  /\ vault.exists
  /\ ~Writable(vault)
  /\ zpc' = "error"
  /\ zexception' = "PermissionError"
  /\ UNCHANGED << gvars, fsvars >>
  /\ UNCHANGED << zi, timestamp, password, password_vault, zip_runs,
                  run_dates, prev_dates, at_start >>

\* json.dump and the end of the with: the list is in the file, the file closed
VaultDump ==
  /\ zpc = "opened"
  /\ vault' = [ vault EXCEPT !.data = << password_vault >> ]
  /\ zpc' = "dumped"
  /\ UNCHANGED << gvars, work_cards, unreadable, milestone_vaults, umask, today, ticks >>
  /\ UNCHANGED << zexception, zi, timestamp, password, password_vault, zip_runs,
                  run_dates, prev_dates, at_start >>

\* os.chmod(vault_path, 0o600) on a file of the process's own, then the return
\* and the completion message
VaultChmod ==
  /\ zpc = "dumped"
  /\ vault.owner = "self"
  /\ vault' = Chmod(vault, 384)
  /\ zpc' = "done"
  /\ UNCHANGED << gvars, work_cards, unreadable, milestone_vaults, umask, today, ticks >>
  /\ UNCHANGED << zexception, zi, timestamp, password, password_vault, zip_runs,
                  run_dates, prev_dates, at_start >>

\* os.chmod raises: the file belongs to somebody else
VaultChmodFails ==
  /\ zpc = "dumped"
  /\ vault.owner # "self"
  /\ zpc' = "error"
  /\ zexception' = "PermissionError"
  /\ UNCHANGED << gvars, fsvars >>
  /\ UNCHANGED << zi, timestamp, password, password_vault, zip_runs,
                  run_dates, prev_dates, at_start >>

\* the script is started again, on the files the last run left
RerunZip ==
  /\ zpc \in { "done", "error" }
  /\ zip_runs < MaxZipRuns
  /\ zpc' = "start"
  /\ zexception' = ""
  /\ zi' = 0
  /\ timestamp' = Unbound
  /\ password' = Unbound
  /\ password_vault' = << >>
  /\ zip_runs' = zip_runs + 1
  /\ run_dates' = {}
  /\ prev_dates' = IF zpc = "done" THEN run_dates ELSE {}
  /\ at_start' = [ milestone_vaults |-> milestone_vaults, vault |-> vault ]
  /\ UNCHANGED << gvars, fsvars >>

\* midnight passes, between two iterations of the loop or between two runs
\* (the date is read nowhere else)
Tick ==
  /\ zpc \in { "loop", "done", "error" }
  /\ ticks < MaxTicks
  /\ today' = NextDay(today)
  /\ ticks' = ticks + 1
  /\ UNCHANGED << gvars, work_cards, unreadable, milestone_vaults, vault, umask, zvars >>

NextZip ==
  \/ StartZip
  \/ PackageMilestone
  \/ PackageMilestoneFails
  \/ ReturnVault
  \/ VaultOpen
  \/ VaultOpenFails
  \/ VaultDump
  \/ VaultChmod
  \/ VaultChmodFails
  \/ RerunZip
  \/ Tick

SpecZip == InitZip /\ [][NextZip]_vars

\* ------------------------------------------------------------------------
\* Properties
\* ------------------------------------------------------------------------

\* the number of tasks of the milestones before milestone m of the catalog
RECURSIVE TasksBefore(_)
TasksBefore(m) == IF m <= 1 THEN 0 ELSE TasksBefore(m - 1) + Len(milestones[m - 1].tasks)

\* the number of tasks of the whole catalog
TotalTasks == TasksBefore(Len(milestones) + 1)

C2_CardNumbersUnique ==
  gpc = "done" =>
    \A f, g \in work_cards.files :
      f.name # g.name => f.content.card_number # g.content.card_number

\* C6: after a full generation run the directory holds as many distinct card
\* files as the catalog has tasks, whatever the declared card_ranges are.
C6_CardCountIsTaskCount ==
  gpc = "done" =>
    Cardinality({ f.name : f \in work_cards.files }) = TotalTasks

\* C6 witness: the first run, into a directory that was empty, is over, and
\* cards of different milestones share a card number (ranges that overlap and
\* are shorter than their task lists).
C6_Witness ==
  /\ gpc = "done"
  /\ gen_runs = 1
  /\ \E f, g \in work_cards.files :
       /\ f.content.milestone # g.content.milestone
       /\ f.content.card_number = g.content.card_number

\* C7: storing a card never fails because the card directory is absent (the
\* store creates it).
C7_StoreCreatesMissingDirectory ==
  ~(gpc = "error" /\ exception = "FileNotFoundError")

\* s contains p as a run of consecutive characters
OccursIn(p, s) ==
  \E a \in 0..(Len(s) - Len(p)) :
    s = SubSeq(s, 1, a) \o p \o SubSeq(s, a + Len(p) + 1, Len(s))

\* the sub-patterns of a comma-separated pattern: its maximal comma-free runs,
\* each from a position that follows a comma (or is the first) up to the
\* position before the next comma (or the last)
SubPatterns(pattern) ==
  LET n == Len(pattern)
      IsComma(i) == SubSeq(pattern, i, i) = ","
      starts == { a \in 1..(n + 1) : a = 1 \/ IsComma(a - 1) }
      EndOf(a) == CHOOSE e \in (a - 1)..n :
                    /\ e = n \/ IsComma(e + 1)
                    /\ \A i \in a..e : ~IsComma(i)
  IN  { SubSeq(pattern, a, EndOf(a)) : a \in starts }

\* the milestones the loop has packaged without an exception in this run
Packaged == IF zpc = "error" /\ Len(password_vault) < zi THEN 1..(zi - 1) ELSE 1..zi

\* C3: the archive of every packaged milestone holds exactly the files of the
\* card directory whose name contains one of the milestone's sub-patterns as a
\* literal substring, each under its own name; on CARD_006_x.yml ..
\* CARD_012_x.yml the bracket patterns select no file.
C3_ArchiveHoldsSubstringMatches ==
  \A k \in Packaged :
    /\ LET sub == SubPatterns(zip_milestones[k].card_pattern)
       IN  ArchiveOf(milestone_vaults, zip_milestones[k]) =
             { [ name |-> zip_milestones[k].name \o ".zip",
                 content |-> { f \in work_cards.files :
                                 \E p \in sub : OccursIn(p, f.name) } ] }
    /\ work_cards.files = NumberedCards =>
         \A z \in ArchiveOf(milestone_vaults, zip_milestones[k]) : z.content = {}

\* C3 witness: the run is over and an archive holds some files of the card
\* directory and leaves others out, one of them let in by a sub-pattern that is
\* only a part of its name.
C3_Witness ==
  /\ zpc = "done"
  /\ \E z \in ArchiveOf(milestone_vaults, zip_milestones[1]) :
       /\ { f.name : f \in z.content } = { "CARD_00[6-9].yml", "CARD_01[0-2].yml.bak" }
       /\ z.content # work_cards.files

\* the vault entries of a run on date d
ExpectedEntries(d) ==
  [ k \in 1..Len(zip_milestones) |->
      [ milestone |-> zip_milestones[k].name,
        password |-> "beaver_dam_" \o DecStr(d.year)
                       \o (IF d.month < 10 THEN "0" ELSE "") \o DecStr(d.month)
                       \o (IF d.day < 10 THEN "0" ELSE "") \o DecStr(d.day)
                       \o "_" \o zip_milestones[k].name ] ]

\* C4: after a successful run on one date the vault file holds one entry per
\* milestone of the packaging list, in list order, each with the password
\* beaver_dam_<YYYYMMDD>_<name>; a second run on the same date leaves the same
\* entries, a second run on another date changes every password.
C4_VaultEntries ==
  zpc = "done" =>
    \A d \in run_dates :
      run_dates = { d } =>
        /\ vault.exists
        /\ vault.data = << ExpectedEntries(d) >>
        /\ \A e \in prev_dates :
             prev_dates = { e } =>
               /\ e = d => at_start.vault.data = vault.data
               /\ e # d =>
                    \A k \in 1..Len(zip_milestones) :
                      at_start.vault.data[1][k].password # vault.data[1][k].password

\* C4 witness: two successful runs, each on one date, the second on a later
\* date than the first.
C4_Witness ==
  /\ zpc = "done"
  /\ zip_runs = 2
  /\ Cardinality(prev_dates) = 1
  /\ Cardinality(run_dates) = 1
  /\ prev_dates # run_dates

\* C5: when save_password_vault has returned, the vault file permits owner
\* read and owner write and nothing else.
C5_VaultModeOwnerOnly ==
  zpc = "done" =>
    /\ vault.exists
    /\ vault.mode \div 64 = 6
    /\ vault.mode % 64 = 0

\* C5 witness: save_password_vault has returned on a file that existed before
\* with bits for group and others.
C5_Witness ==
  /\ zpc = "done"
  /\ zip_runs = 1
  /\ at_start.vault.exists
  /\ at_start.vault.mode % 64 # 0

\* the packaging of the milestone the loop is at has raised, or would have
FailedHere == zi >= 1 /\ zpc # "start" /\ Len(password_vault) < zi

\* C8, as the specification states it: when the packaging of a milestone has
\* failed and the run is over, every later milestone has its archive, with the
\* files its pattern selects.
C8_LaterMilestonesStillPackaged ==
  (zpc = "error" /\ FailedHere) =>
    \A j \in (zi + 1)..Len(zip_milestones) :
      ArchiveOf(milestone_vaults, zip_milestones[j]) =
        { [ name |-> zip_filename(zip_milestones[j]),
            content |-> Selected(zip_milestones[j], work_cards) ] }

\* C8, amended: when the packaging of a milestone fails the whole run ends
\* there: the script is in its error state, no entry is recorded for the
\* milestone, no later milestone is packaged (its archive is as the run found
\* it) and the vault file is not written.
C8_FailureAbortsRun ==
  (zi >= 1 /\ zpc # "start" /\ PackagingRaises(zip_milestones[zi])) =>
    /\ zpc = "error"
    /\ Len(password_vault) = zi - 1
    /\ \A j \in (zi + 1)..Len(zip_milestones) :
         ArchiveOf(milestone_vaults, zip_milestones[j]) =
           ArchiveOf(at_start.milestone_vaults, zip_milestones[j])
    /\ vault = at_start.vault

\* C8 witness: the second milestone's packaging has failed on an unreadable
\* file after the first milestone was packaged, and later milestones follow.
C8_Witness ==
  /\ zpc = "error"
  /\ zi = 2
  /\ zexception = "PermissionError"
  /\ Len(password_vault) = 1

\* C9: between the opening of the vault file and the return of
\* save_password_vault, a vault file that holds credentials grants nothing to
\* group or others.
C9_NoCredentialsUnderWiderBits ==
  (zpc \in { "opened", "dumped" } /\ vault.data # << >> /\ Len(vault.data[1]) > 0) =>
    vault.mode % 64 = 0

\* C10: all entries of one run's password_vault embed the same date.
C10_OneDatePerRun ==
  \A i, j \in 1..Len(password_vault) :
    SubSeq(password_vault[i].password, 12, 19) = SubSeq(password_vault[j].password, 12, 19)

====
